---- MODULE Spec2Model ----
(***************************************************************************)
(* Document ingestion of rag-chat-ui: POST /api/upload                     *)
(* (src/rag-chat-ui/app/api/upload/route.ts).                              *)
(*                                                                         *)
(* A text is a sequence of one-character strings.  JavaScript indices are  *)
(* 0-based and are kept 0-based here: CharAt and Slice do the shift to     *)
(* the 1-based TLA+ sequences.                                             *)
(***************************************************************************)
EXTENDS Integers, Sequences, FiniteSets, TLC

\* ------------------------------------------------------------------------
\* Program constants (route.ts:16-19, :21, :42, :50, :168, :240)
\* ------------------------------------------------------------------------
MAX_RETRIES == 3
BASE_RETRY_DELAY == 1000
DELAY_BETWEEN_BATCHES == 5000
INTRA_BATCH_DELAY == 200
DEFAULT_MAX_CHARS == 1500
DEFAULT_OVERLAP == 200
MIN_CHUNK_CHARS == 50
SENTENCE_SEARCH_SPAN == 200

\* BATCH_SIZE is 10 (route.ts:16) and UPSERT_BATCH_SIZE is 100
\* (route.ts:327) in the source.  The code reads both only through
\* i += SIZE, slice(i, i + SIZE) and floor(i / SIZE), so the model keeps
\* the names and instantiates them small: a run of a handful of chunks
\* then spans several embedding batches and several upsert batches.
BATCH_SIZE == 2
UPSERT_BATCH_SIZE == 2

\* ------------------------------------------------------------------------
\* Strings
\* ------------------------------------------------------------------------
\* undefined, as a character, and null, as a vector (number[] | null)
Undefined == "undefined"
Null == <<"null">>

Min2(a, b) == IF a <= b THEN a ELSE b
Max2(a, b) == IF a >= b THEN a ELSE b
SetMax(S) == CHOOSE x \in S : \A y \in S : y <= x

\* \s of a JavaScript regular expression, restricted to the model's alphabet
IsWhitespace(c) == c \in {" ", "\n", "\r", "\t"}

\* String.prototype.toUpperCase on one character of the model's alphabet:
\* a lower-case letter changes, every other character is its own upper case.
ToUpperCase(c) ==
  CASE c = "a" -> "A"
    [] c = "b" -> "B"
    [] OTHER -> c

\* s[i] of JavaScript: undefined outside the string
CharAt(s, i) == IF i >= 0 /\ i < Len(s) THEN s[i + 1] ELSE Undefined

\* s.slice(from, to) for 0 <= from
Slice(s, from, to) == SubSeq(s, from + 1, Min2(to, Len(s)))

RECURSIVE SkipWsForward(_, _)
SkipWsForward(s, i) ==
  IF i <= Len(s) /\ IsWhitespace(s[i]) THEN SkipWsForward(s, i + 1) ELSE i

RECURSIVE SkipWsBackward(_, _)
SkipWsBackward(s, i) ==
  IF i >= 1 /\ IsWhitespace(s[i]) THEN SkipWsBackward(s, i - 1) ELSE i

\* String.prototype.trim
Trim(s) == SubSeq(s, SkipWsForward(s, 1), SkipWsBackward(s, Len(s)))

\* .replace(/\r\n/g, '\n'): every "\r" directly followed by "\n" goes
ReplaceCRLF(s) ==
  LET P == [i \in 1..Len(s) |-> <<s[i], CharAt(s, i)>>]
      Keep(p) == ~(p[1] = "\r" /\ p[2] = "\n")
      K == SelectSeq(P, Keep)
  IN  [i \in 1..Len(K) |-> K[i][1]]

\* .replace(/\r/g, '\n')
ReplaceCR(s) == [i \in 1..Len(s) |-> IF s[i] = "\r" THEN "\n" ELSE s[i]]

\* .replace(/\s+/g, ' '): every maximal whitespace run becomes one space
CollapseWhitespace(s) ==
  LET P == [i \in 1..Len(s) |-> <<s[i], CharAt(s, i - 2)>>]
      Keep(p) == ~IsWhitespace(p[1]) \/ p[2] = Undefined \/ ~IsWhitespace(p[2])
      K == SelectSeq(P, Keep)
  IN  [i \in 1..Len(K) |-> IF IsWhitespace(K[i][1]) THEN " " ELSE K[i][1]]

CleanText(text) == Trim(CollapseWhitespace(ReplaceCR(ReplaceCRLF(text))))

\* ------------------------------------------------------------------------
\* splitTextIntoChunks (route.ts:21-102)
\* ------------------------------------------------------------------------
CeilDiv(a, b) == (a + b - 1) \div b

\* The least integer i with i >= searchStart, where
\* searchStart = Math.max(startIndex + maxChars - 200, startIndex + maxChars * 0.7)
SearchStart(startIndex, maxChars) ==
  Max2(startIndex + maxChars - SENTENCE_SEARCH_SPAN,
       startIndex + CeilDiv(7 * maxChars, 10))

IsTerminator(c) == c = "." \/ c = "!" \/ c = "?"

\* The test of route.ts:55-59 at index i
IsSentenceEnd(cleanedText, i) ==
  LET nextChar == CharAt(cleanedText, i + 1)
      charAfterNext == CharAt(cleanedText, i + 2)
  IN  /\ IsTerminator(CharAt(cleanedText, i))
      /\ nextChar = " "
      /\ charAfterNext # Undefined
      /\ charAfterNext = ToUpperCase(charAfterNext)

\* route.ts:49-64: the first i, going down from endIndex to searchStart,
\* that passes the test gives chunkEndIndex = i + 1; none leaves endIndex.
SentenceBoundary(cleanedText, startIndex, maxChars) ==
  LET endIndex == startIndex + maxChars
      S == {i \in SearchStart(startIndex, maxChars)..endIndex :
              IsSentenceEnd(cleanedText, i)}
  IN  IF S = {} THEN endIndex ELSE SetMax(S) + 1

\* route.ts:67-74: run only when chunkEndIndex is still endIndex
WordBoundary(cleanedText, startIndex, maxChars) ==
  LET endIndex == startIndex + maxChars
      W == {i \in SearchStart(startIndex, maxChars)..endIndex :
              CharAt(cleanedText, i) = " "}
  IN  IF W = {} THEN endIndex ELSE SetMax(W)

\* ChunkEndIndex with the two searches in the other order: the nearest space
\* is taken when there is one, a sentence end only when there is none
ChunkEndIndexSpaceFirst(cleanedText, startIndex, maxChars) ==
  LET endIndex == startIndex + maxChars
      atWord == WordBoundary(cleanedText, startIndex, maxChars)
  IN  IF atWord = endIndex
        THEN SentenceBoundary(cleanedText, startIndex, maxChars)
        ELSE atWord

ChunkEndIndex(cleanedText, startIndex, maxChars) ==
  LET endIndex == startIndex + maxChars
      atSentence == SentenceBoundary(cleanedText, startIndex, maxChars)
  IN  IF atSentence = endIndex
        THEN WordBoundary(cleanedText, startIndex, maxChars)
        ELSE atSentence

\* NextStartIndex without the guard of route.ts:85: the overlap is taken
\* back from the cursor, not from the cut
NextStartIndexNoGuard(startIndex, chunkEndIndex, overlap) ==
  LET nextStart == startIndex - overlap
  IN  IF nextStart >= chunkEndIndex THEN chunkEndIndex ELSE nextStart

\* NextStartIndex skipping the character at the cut
NextStartIndexPastCut(startIndex, chunkEndIndex, overlap) == chunkEndIndex + 1

\* NextStartIndex without the overlap: the next window starts at the cut
NextStartIndexAtCut(startIndex, chunkEndIndex, overlap) == chunkEndIndex

\* route.ts:85-91
NextStartIndex(startIndex, chunkEndIndex, overlap) ==
  LET nextStart == Max2(chunkEndIndex - overlap, startIndex + 1)
  IN  IF nextStart >= chunkEndIndex THEN chunkEndIndex ELSE nextStart

\* route.ts:79-81 and :42-44
PushIfSubstantial(chunks, chunk) ==
  IF Len(chunk) > MIN_CHUNK_CHARS THEN Append(chunks, chunk) ELSE chunks

\* The while loop of route.ts:36-92, from the cursor startIndex on
RECURSIVE SplitLoop(_, _, _, _, _)
SplitLoop(cleanedText, maxChars, overlap, startIndex, chunks) ==
  IF ~(startIndex < Len(cleanedText)) THEN chunks
  ELSE IF startIndex + maxChars >= Len(cleanedText)
    THEN PushIfSubstantial(chunks, Trim(Slice(cleanedText, startIndex, Len(cleanedText))))
    ELSE LET chunkEndIndex == ChunkEndIndex(cleanedText, startIndex, maxChars)
             chunk == Trim(Slice(cleanedText, startIndex, chunkEndIndex))
         IN  SplitLoop(cleanedText, maxChars, overlap,
                       NextStartIndex(startIndex, chunkEndIndex, overlap),
                       PushIfSubstantial(chunks, chunk))

\* route.ts:101
FinalFilter(chunks) ==
  LET AtLeastMin(chunk) == Len(chunk) >= MIN_CHUNK_CHARS
  IN  SelectSeq(chunks, AtLeastMin)

splitTextIntoChunks(text, maxChars, overlap) ==
  LET cleanedText == CleanText(text)
  IN  IF Len(cleanedText) <= maxChars
        THEN <<cleanedText>>
        ELSE FinalFilter(SplitLoop(cleanedText, maxChars, overlap, 0, <<>>))

\* ------------------------------------------------------------------------
\* Bounds of the model
\* ------------------------------------------------------------------------
\* The longest uploaded document, in units of 1200 characters
MaxDocUnits == 3
\* The longest text splitTextIntoChunks is run on by itself, in tokens
MaxTokens == 4
\* The most rate-limit errors the service answers one chunk with while two
\* calls of processChunksInBatches run side by side
MaxRunRateLimits == 1
\* The questions POST /api/ask answers one after the other
MaxAsks == 2

\* ------------------------------------------------------------------------
\* The embedding API (genAI.models.embedContent) and its answers
\* ------------------------------------------------------------------------
\* The vector the service answers with, its numbers as numerals
ApiVectors == {<<"0.1", "0.2">>}

\* An error message is a sequence of words; includes() looks for a word
ErrorMessages ==
  { <<"429", "quota">>, <<"Too Many Requests">>, <<"500", "internal">> }

Includes(message, word) == \E k \in 1..Len(message) : message[k] = word

\* A resolved call carries result.embeddings, the values of each (no
\* embedding at all, or one that may be empty); a rejected call carries the
\* error's message.
ApiAnswers ==
  {[kind |-> "resolved", embeddings |-> e] :
      e \in {<<>>} \cup {<<v>> : v \in ApiVectors \cup {<<>>}}}
    \cup {[kind |-> "rejected", message |-> m] : m \in ErrorMessages}

\* route.ts:127
IsRateLimitError(errorMessage) ==
  Includes(errorMessage, "429") \/ Includes(errorMessage, "Too Many Requests")

RECURSIVE Pow2(_)
Pow2(n) == IF n = 0 THEN 1 ELSE 2 * Pow2(n - 1)

\* route.ts:130
RetryDelay(retryCount) == BASE_RETRY_DELAY * Pow2(retryCount)

\* ------------------------------------------------------------------------
\* Requests
\* ------------------------------------------------------------------------
NoFile == [missing |-> TRUE]
MAX_FILE_SIZE == 10 * 1024 * 1024
AllowedTypes == {<<".", "pdf">>, <<".", "txt">>, <<".", "md">>}

\* String.prototype.toLowerCase on the extensions of the model
ToLowerCase(word) ==
  CASE word = "TXT" -> "txt"
    [] word = "PDF" -> "pdf"
    [] word = "MD" -> "md"
    [] OTHER -> word

\* route.ts:230; a file name is kept as name.split('.')
FileExtension(name) == <<".", ToLowerCase(name[Len(name)])>>

Rep(c, n) == [k \in 1..n |-> c]

\* Documents: plain prose in sentences of `period` characters
\* ("Aaaa...a. "), n characters in all.
Prose(n, period) ==
  [k \in 1..n |->
     CASE k % period = 1 -> "A"
       [] k % period = period - 1 -> "."
       [] k % period = 0 -> " "
       [] OTHER -> "a"]

\* A document of u units is u * 12 sentences of 100 characters
Document(u) == Prose(u * 12 * 100, 100)

\* Two plain-text documents of 4000 characters, normalized or not: their
\* sentences have 99 and 190 characters
ProsePeriods == {99, 190}

HiThere == <<"h", "i", " ", "t", "h", "e", "r", "e", "!">>

TextFile(name, text) ==
  [name |-> name, size |-> Len(text), text |-> text, parseFails |-> FALSE]

Requests ==
  { [apiKey |-> FALSE, file |-> NoFile],
    [apiKey |-> TRUE, file |-> NoFile],
    [apiKey |-> TRUE, file |-> TextFile(<<"run", "exe">>, HiThere)],
    [apiKey |-> TRUE, file |-> TextFile(<<"README">>, HiThere)],
    [apiKey |-> TRUE, file |-> TextFile(<<"txt">>, HiThere)],
    [apiKey |-> TRUE,
     file |-> [name |-> <<"big", "txt">>, size |-> MAX_FILE_SIZE + 1,
               text |-> <<>>, parseFails |-> FALSE]],
    [apiKey |-> TRUE,
     file |-> [name |-> <<"scan", "pdf">>, size |-> 4096,
               text |-> <<>>, parseFails |-> TRUE]],
    [apiKey |-> TRUE, file |-> TextFile(<<"scan", "PDF">>, <<" ", "\n">>)],
    [apiKey |-> TRUE, file |-> TextFile(<<"blank", "md">>, <<" ", "\r", "\n", "\t">>)],
    [apiKey |-> TRUE, file |-> TextFile(<<"hi", "txt">>, HiThere \o <<"\r", "\n">>)] }
  \cup
  { [apiKey |-> TRUE, file |-> TextFile(<<"notes", "txt">>, Document(u))]
      : u \in 1..MaxDocUnits }
  \cup
  { [apiKey |-> TRUE, file |-> TextFile(<<"prose", "txt">>, Prose(4000, period))]
      : period \in ProsePeriods }

\* ------------------------------------------------------------------------
\* State
\* ------------------------------------------------------------------------
VARIABLES
  request,      \* the POST request: API key configured, the uploaded file
  pc,           \* where the handler stands
  chunks,       \* route.ts:295
  batchStart,   \* i of route.ts:155
  tasks,        \* the batch's promises (route.ts:163), by batchIndex
  vectors,      \* route.ts:151
  nextUuid,     \* uuidv4(): the number of the next fresh id
  issued,       \* the global indices an embedContent request was issued for
  handed,       \* the global indices handed to generateEmbeddingWithRetry
                \* at route.ts:171, one entry for each call, in call order
  embedded,     \* <<global index, what generateEmbeddingWithRetry returned>>
  completed,    \* the batch's global indices in the order their embedding came back
  batchDelays,  \* the delays awaited at route.ts:201, in order
  upsertStart,  \* i of route.ts:329
  upsertCalls,  \* the index.upsert calls issued so far, in order
  store,        \* the vectors the index holds
  response,     \* the handler's answer, NoResponse until it returns
  seg,          \* splitTextIntoChunks run on its own
  runs,         \* concurrent calls of processChunksInBatches, by run id
  ask           \* the handler of POST /api/ask and the storage it uses

postVars == <<request, pc, chunks, batchStart, tasks, vectors, nextUuid,
              issued, handed, embedded, completed, batchDelays, upsertStart,
              upsertCalls, store, response>>
vars == <<request, pc, chunks, batchStart, tasks, vectors, nextUuid,
          issued, handed, embedded, completed, batchDelays, upsertStart,
          upsertCalls, store, response, seg, runs, ask>>

NoResponse == [status |-> 0]
SegIdle == [pc |-> "idle"]
AskIdle == [pc |-> "idle"]

ErrorResponse(status, error) == [status |-> status, error |-> error]

\* ------------------------------------------------------------------------
\* generateEmbeddingWithRetry (route.ts:112-143), one call of the API at a
\* time.  A task is one promise of batchPromises: the map callback of
\* route.ts:163-188 with the generateEmbeddingWithRetry call it awaits.
\*   state      "pacing"  in delay(200) of route.ts:168
\*              "calling" an embedContent request is in flight
\*              "backoff" in delay(retryDelay) of route.ts:132
\*              "returned" generateEmbeddingWithRetry has returned `embedding`
\*              "threw"   an exception left generateEmbeddingWithRetry
\*              "done"    the callback has resolved to `result`
\*   pacing     the delay of route.ts:168 the task starts with, 0 for none
\*   apiCalls   embedContent requests issued so far
\*   backoffs   the retryDelay values awaited so far, in order
\*   answers    the kinds of the answers received so far, in order
\* ------------------------------------------------------------------------
NullResult == [null |-> TRUE]

NewTask(batchIndex) ==
  [state |-> IF batchIndex > 0 THEN "pacing" ELSE "calling",
   pacing |-> IF batchIndex > 0 THEN INTRA_BATCH_DELAY ELSE 0,
   retryCount |-> 0,
   apiCalls |-> IF batchIndex > 0 THEN 0 ELSE 1,
   backoffs |-> <<>>,
   answers |-> <<>>,
   embedding |-> Null,
   result |-> NullResult]

AnswerKind(answer) ==
  IF answer.kind = "resolved"
    THEN IF Len(answer.embeddings) > 0 /\ Len(answer.embeddings[1]) > 0
           THEN "vector" ELSE "empty"
    ELSE IF IsRateLimitError(answer.message) THEN "rateLimit" ELSE "error"

\* OnResolved without the length test of route.ts:123: an empty vector is
\* returned as it is
OnResolvedKeepsEmpty(task, embeddings) ==
  [task EXCEPT !.state = "returned",
               !.embedding = IF Len(embeddings) > 0 THEN embeddings[1] ELSE Null]

\* route.ts:122-123: result.embeddings?.[0]?.values, null when it is
\* undefined or empty
OnResolved(task, embeddings) ==
  [task EXCEPT !.state = "returned",
               !.embedding = IF Len(embeddings) > 0 /\ Len(embeddings[1]) > 0
                               THEN embeddings[1] ELSE Null]

\* OnRejected with the bound of route.ts:128 off by one
OnRejectedOneRetryMore(task, errorMessage) ==
  IF IsRateLimitError(errorMessage)
    THEN IF task.retryCount <= MAX_RETRIES
           THEN [task EXCEPT !.state = "backoff",
                             !.backoffs = Append(@, RetryDelay(task.retryCount))]
           ELSE [task EXCEPT !.state = "returned", !.embedding = Null]
    ELSE [task EXCEPT !.state = "returned", !.embedding = Null]

\* OnRejected with the error that is no rate limit thrown on
OnRejectedRethrows(task, errorMessage) ==
  IF IsRateLimitError(errorMessage)
    THEN IF task.retryCount < MAX_RETRIES
           THEN [task EXCEPT !.state = "backoff",
                             !.backoffs = Append(@, RetryDelay(task.retryCount))]
           ELSE [task EXCEPT !.state = "returned", !.embedding = Null]
    ELSE [task EXCEPT !.state = "threw"]

\* OnRejected retrying whatever the error is
OnRejectedRetriesAnyError(task, errorMessage) ==
  IF task.retryCount < MAX_RETRIES
    THEN [task EXCEPT !.state = "backoff",
                      !.backoffs = Append(@, RetryDelay(task.retryCount))]
    ELSE [task EXCEPT !.state = "returned", !.embedding = Null]

\* route.ts:124-142
OnRejected(task, errorMessage) ==
  IF IsRateLimitError(errorMessage)
    THEN IF task.retryCount < MAX_RETRIES
           THEN [task EXCEPT !.state = "backoff",
                             !.backoffs = Append(@, RetryDelay(task.retryCount))]
           ELSE [task EXCEPT !.state = "returned", !.embedding = Null]
    ELSE [task EXCEPT !.state = "returned", !.embedding = Null]

\* The task after the answer to its pending embedContent call
generateEmbeddingWithRetry(task, answer) ==
  LET logged == [task EXCEPT !.answers = Append(@, AnswerKind(answer))]
  IN  IF answer.kind = "resolved"
        THEN OnResolved(logged, answer.embeddings)
        ELSE OnRejected(logged, answer.message)

\* route.ts:132-133: the delay is over, the recursive call issues a request
RetryCall(task) ==
  [task EXCEPT !.state = "calling",
               !.retryCount = @ + 1,
               !.apiCalls = @ + 1]

\* route.ts:168-171: the pacing delay is over, the first request is issued
FirstCall(task) == [task EXCEPT !.state = "calling", !.apiCalls = @ + 1]

\* MakeVector counting the chunks as they come: total_chunks is the number
\* of chunks up to this one
MakeVectorCountingSoFar(chunk, fileName, globalIndex, totalChunks, batchNumber, embedding, id) ==
  IF embedding # Null
    THEN [id |-> id,
          values |-> embedding,
          metadata |-> [text |-> chunk,
                        source |-> fileName,
                        chunk_index |-> globalIndex,
                        total_chunks |-> globalIndex + 1,
                        batch_number |-> batchNumber]]
    ELSE NullResult

\* route.ts:173-187: what the map callback resolves to
MakeVector(chunk, fileName, globalIndex, totalChunks, batchNumber, embedding, id) ==
  IF embedding # Null
    THEN [id |-> id,
          values |-> embedding,
          metadata |-> [text |-> chunk,
                        source |-> fileName,
                        chunk_index |-> globalIndex,
                        total_chunks |-> totalChunks,
                        batch_number |-> batchNumber]]
    ELSE NullResult

\* ------------------------------------------------------------------------
\* processChunksInBatches (route.ts:146-206)
\* ------------------------------------------------------------------------
\* route.ts:156
Batch(allChunks, i) == Slice(allChunks, i, i + BATCH_SIZE)

\* BatchNumber counting the batches from 0
BatchNumberFromZero(i) == i \div BATCH_SIZE

\* route.ts:157
BatchNumber(i) == (i \div BATCH_SIZE) + 1

\* NextBatchStart going back over the chunks that came back null: the
\* next batch starts one chunk early
NextBatchStartResubmitting(i) == i + BATCH_SIZE - 1

\* route.ts:155: i += BATCH_SIZE
NextBatchStart(i) == i + BATCH_SIZE

\* route.ts:163: batch.map(...) starts every callback of the batch
StartBatch(allChunks, i) ==
  [batchIndex \in 0..(Len(Batch(allChunks, i)) - 1) |-> NewTask(batchIndex)]

\* route.ts:164-187 from the answer on: generateEmbeddingWithRetry handles
\* it and, once it has returned, the callback builds its vector.
\* metadata.timestamp (the wall clock) is left out of the vector.
CallbackAfterAnswer(task, answer, allChunks, fileName, i, batchIndex, id) ==
  LET t == generateEmbeddingWithRetry(task, answer)
      globalIndex == i + batchIndex
  IN  IF t.state = "returned"
        THEN [t EXCEPT !.state = "done",
                       !.result = MakeVector(allChunks[globalIndex + 1],
                                             fileName,
                                             globalIndex,
                                             Len(allChunks),
                                             BatchNumber(i),
                                             t.embedding,
                                             id)]
        ELSE t

\* The callback of the upload handler's own call
TaskAfterAnswer(task, batchIndex, answer) ==
  CallbackAfterAnswer(task, answer, chunks, request.file.name, batchStart,
                      batchIndex, nextUuid)

\* ValidResults collecting each result as its promise resolves
ValidResultsAsCompleted(batchTasks) ==
  LET all == [k \in 1..Len(completed) |-> batchTasks[completed[k] - batchStart].result]
      NotNull(r) == r # NullResult
  IN  SelectSeq(all, NotNull)

\* route.ts:190-192: Promise.all keeps the order of the batch
ValidResults(batchTasks) ==
  LET all == [k \in 1..Cardinality(DOMAIN batchTasks) |-> batchTasks[k - 1].result]
      NotNull(r) == r # NullResult
  IN  SelectSeq(all, NotNull)

\* AllSettled not waiting for the last promise of the batch
AllSettledButLast(batchTasks) ==
  \A b \in DOMAIN batchTasks :
    b + 1 < Cardinality(DOMAIN batchTasks) => batchTasks[b].state = "done"

\* AllSettled as Promise.race: the first promise to resolve ends the wait
AnySettled(batchTasks) ==
  \E b \in DOMAIN batchTasks : batchTasks[b].state = "done"

\* route.ts:190: Promise.all resolves once every promise of the batch has
AllSettled(batchTasks) ==
  \A b \in DOMAIN batchTasks : batchTasks[b].state = "done"

\* HasNextBatch with <= for <: a run whose chunks fill its batches waits once
\* more and goes through an empty batch
HasNextBatchInclusive(i, n) == i + BATCH_SIZE <= n

\* HasNextBatch with the comparison off by one
HasNextBatchOffByOne(i, n) == i + BATCH_SIZE < n - 1

\* route.ts:155 and :199: a further batch remains after the one at i
HasNextBatch(i, n) == i + BATCH_SIZE < n

\* NoVectors with the check of route.ts:315 left out
NoVectorsUnchecked(vs) == FALSE

\* route.ts:315
NoVectors(vs) == Len(vs) = 0

\* route.ts:316-319
NoVectorsResponse ==
  ErrorResponse(500, "Failed to process any chunks from the document.")

\* route.ts:336-339
StoreFailureResponse ==
  ErrorResponse(500, "Failed to store document in the knowledge base.")

\* route.ts:361-364
InternalErrorResponse ==
  ErrorResponse(500, "Internal server error during file upload.")

\* UpsertBatch with the slice one vector too long: the first vector of the
\* next batch is submitted twice
UpsertBatchOverlapping(allVectors, i) ==
  Slice(allVectors, i, i + UPSERT_BATCH_SIZE + 1)

\* route.ts:329-331: the upsert call of the loop at i
UpsertBatch(allVectors, i) == Slice(allVectors, i, i + UPSERT_BATCH_SIZE)

\* OkResponse reporting the chunks for the vectors
OkResponseCountingChunks ==
  [status |-> 200,
   body |-> [status |-> "ok",
             chunks |-> Len(chunks),
             chunksCreated |-> Len(chunks),
             totalChunks |-> Len(chunks)]]

\* route.ts:342-357
OkResponse ==
  [status |-> 200,
   body |-> [status |-> "ok",
             chunks |-> Len(vectors),
             chunksCreated |-> Len(vectors),
             totalChunks |-> Len(chunks)]]

\* ------------------------------------------------------------------------
\* POST (route.ts:208-366)
\* ------------------------------------------------------------------------
Pass == [status |-> 0]

\* route.ts:210-292: the answer that turns the request away, or Pass
Validate(req) ==
  IF ~req.apiKey
    THEN ErrorResponse(500, "Google API key is not configured")
  ELSE IF req.file = NoFile
    THEN ErrorResponse(400, "No document file provided")
  ELSE IF FileExtension(req.file.name) \notin AllowedTypes
    THEN ErrorResponse(400, "Please upload a PDF, TXT, or MD file.")
  ELSE IF req.file.size > MAX_FILE_SIZE
    THEN ErrorResponse(400, "File size must be less than 10MB.")
  ELSE IF req.file.parseFails
    THEN ErrorResponse(400, "Failed to parse file content.")
  ELSE IF FileExtension(req.file.name) = <<".", "pdf">> /\ Len(Trim(req.file.text)) = 0
    THEN ErrorResponse(400, "Could not extract text from PDF.")
  ELSE IF Len(Trim(req.file.text)) = 0
    THEN ErrorResponse(400, "No readable content found in the file.")
  ELSE Pass

Respond(r) ==
  /\ response' = r
  /\ pc' = "responded"

\* route.ts:208-313, up to the first await of processChunksInBatches
PostReceive ==
  /\ pc = "request"
  /\ LET rejection == Validate(request)
     IN  IF rejection # Pass
           THEN /\ Respond(rejection)
                /\ UNCHANGED <<chunks, batchStart, tasks, issued, handed>>
           ELSE LET cs == splitTextIntoChunks(request.file.text,
                                              DEFAULT_MAX_CHARS, DEFAULT_OVERLAP)
                IN  IF Len(cs) = 0
                      THEN /\ Respond(ErrorResponse(400,
                                 "No content could be extracted from the document"))
                           /\ UNCHANGED <<chunks, batchStart, tasks, issued, handed>>
                      ELSE /\ chunks' = cs
                           /\ batchStart' = 0
                           /\ tasks' = StartBatch(cs, 0)
                           /\ issued' = issued \cup {0}
                           /\ handed' = Append(handed, 0)
                           /\ pc' = "embedding"
                           /\ UNCHANGED response
  /\ UNCHANGED <<request, vectors, nextUuid, embedded, completed, batchDelays,
                 upsertStart, upsertCalls, store, seg, runs, ask>>

\* PacingElapsed with the requests of a batch made one after the other: the
\* request of a chunk is issued once the chunks before it are done
PacingElapsedInTurn(b) ==
  /\ pc = "embedding"
  /\ b \in DOMAIN tasks
  /\ tasks[b].state = "pacing"
  /\ \A a \in DOMAIN tasks : a < b => tasks[a].state = "done"
  /\ tasks' = [tasks EXCEPT ![b] = FirstCall(@)]
  /\ issued' = issued \cup {batchStart + b}
  /\ handed' = Append(handed, batchStart + b)
  /\ UNCHANGED <<request, pc, chunks, batchStart, vectors, nextUuid, embedded,
                 completed, batchDelays, upsertStart, upsertCalls, store,
                 response, seg, runs, ask>>

\* route.ts:168: setTimeout timers of one duration, set in one tick, fire in
\* the order they were set
PacingElapsed(b) ==
  /\ pc = "embedding"
  /\ b \in DOMAIN tasks
  /\ tasks[b].state = "pacing"
  /\ \A a \in DOMAIN tasks : a < b => tasks[a].state # "pacing"
  /\ tasks' = [tasks EXCEPT ![b] = FirstCall(@)]
  /\ issued' = issued \cup {batchStart + b}
  /\ handed' = Append(handed, batchStart + b)
  /\ UNCHANGED <<request, pc, chunks, batchStart, vectors, nextUuid, embedded,
                 completed, batchDelays, upsertStart, upsertCalls, store,
                 response, seg, runs, ask>>

\* The embedding service answers the pending request of task b.  An
\* exception leaving the task rejects Promise.all and with it
\* processChunksInBatches: the handler's catch answers (route.ts:359-365).
ApiAnswer(b, answer) ==
  /\ pc = "embedding"
  /\ b \in DOMAIN tasks
  /\ tasks[b].state = "calling"
  /\ LET t == TaskAfterAnswer(tasks[b], b, answer)
     IN  /\ tasks' = [tasks EXCEPT ![b] = t]
         /\ completed' = IF t.state = "done"
                           THEN Append(completed, batchStart + b) ELSE completed
         /\ embedded' = IF t.state = "done"
                          THEN embedded \cup {<<batchStart + b, t.embedding>>}
                          ELSE embedded
         /\ nextUuid' = IF t.state = "done" /\ t.result # NullResult
                          THEN nextUuid + 1 ELSE nextUuid
         /\ IF t.state = "threw"
              THEN Respond(InternalErrorResponse)
              ELSE UNCHANGED <<pc, response>>
  /\ UNCHANGED <<request, chunks, batchStart, vectors, issued, handed, batchDelays,
                 upsertStart, upsertCalls, store, seg, runs, ask>>

\* route.ts:132-133
BackoffElapsed(b) ==
  /\ pc = "embedding"
  /\ b \in DOMAIN tasks
  /\ tasks[b].state = "backoff"
  /\ tasks' = [tasks EXCEPT ![b] = RetryCall(@)]
  /\ UNCHANGED <<request, pc, chunks, batchStart, vectors, nextUuid, issued, handed,
                 embedded, completed, batchDelays, upsertStart, upsertCalls,
                 store, response, seg, runs, ask>>

\* route.ts:190-205 and, after the last batch, route.ts:315-331 up to the
\* first await of index.upsert
BatchSettled ==
  /\ pc = "embedding"
  /\ AllSettled(tasks)
  /\ LET vs == vectors \o ValidResults(tasks)
     IN  /\ vectors' = vs
         /\ tasks' = <<>>
         /\ IF HasNextBatch(batchStart, Len(chunks))
              THEN /\ pc' = "batchDelay"
                   /\ batchDelays' = Append(batchDelays, DELAY_BETWEEN_BATCHES)
                   /\ UNCHANGED <<upsertStart, upsertCalls, response>>
              ELSE IF NoVectors(vs)
                THEN /\ Respond(NoVectorsResponse)
                     /\ UNCHANGED <<batchDelays, upsertStart, upsertCalls>>
                ELSE /\ pc' = "upserting"
                     /\ upsertStart' = 0
                     /\ upsertCalls' = Append(upsertCalls, UpsertBatch(vs, 0))
                     /\ UNCHANGED <<batchDelays, response>>
  /\ UNCHANGED <<request, chunks, batchStart, nextUuid, issued, handed, embedded,
                 completed, store, seg, runs, ask>>

\* route.ts:201 is over: the next iteration of route.ts:155 starts its batch
BatchDelayElapsed ==
  /\ pc = "batchDelay"
  /\ batchStart' = NextBatchStart(batchStart)
  /\ tasks' = StartBatch(chunks, NextBatchStart(batchStart))
  /\ issued' = issued \cup {NextBatchStart(batchStart)}
  /\ handed' = Append(handed, NextBatchStart(batchStart))
  /\ completed' = <<>>
  /\ pc' = "embedding"
  /\ UNCHANGED <<request, chunks, vectors, nextUuid, embedded, batchDelays,
                 upsertStart, upsertCalls, store, response, seg, runs, ask>>

\* route.ts:331-357: index.upsert(batch) resolved
UpsertResolved ==
  /\ pc = "upserting"
  /\ store' = store \o UpsertBatch(vectors, upsertStart)
  /\ IF upsertStart + UPSERT_BATCH_SIZE < Len(vectors)
       THEN /\ upsertStart' = upsertStart + UPSERT_BATCH_SIZE
            /\ upsertCalls' = Append(upsertCalls,
                 UpsertBatch(vectors, upsertStart + UPSERT_BATCH_SIZE))
            /\ UNCHANGED <<pc, response>>
       ELSE /\ Respond(OkResponse)
            /\ UNCHANGED <<upsertStart, upsertCalls>>
  /\ UNCHANGED <<request, chunks, batchStart, tasks, vectors, nextUuid,
                 issued, handed, embedded, completed, batchDelays, seg, runs, ask>>

\* UpsertRejected with the catch inside the loop: the failed batch is
\* skipped and the loop goes on
UpsertRejectedGoesOn ==
  /\ pc = "upserting"
  /\ IF upsertStart + UPSERT_BATCH_SIZE < Len(vectors)
       THEN /\ upsertStart' = upsertStart + UPSERT_BATCH_SIZE
            /\ upsertCalls' = Append(upsertCalls,
                 UpsertBatch(vectors, upsertStart + UPSERT_BATCH_SIZE))
            /\ UNCHANGED <<pc, response>>
       ELSE /\ Respond(OkResponse)
            /\ UNCHANGED <<upsertStart, upsertCalls>>
  /\ UNCHANGED <<request, chunks, batchStart, tasks, vectors, nextUuid, issued, handed,
                 embedded, completed, batchDelays, store, seg, runs, ask>>

\* route.ts:334-340: index.upsert(batch) rejected
UpsertRejected ==
  /\ pc = "upserting"
  /\ Respond(StoreFailureResponse)
  /\ UNCHANGED <<request, chunks, batchStart, tasks, vectors, nextUuid, issued, handed,
                 embedded, completed, batchDelays, upsertStart, upsertCalls,
                 store, seg, runs, ask>>

Init ==
  /\ request \in Requests
  /\ pc = "request"
  /\ chunks = <<>>
  /\ batchStart = 0
  /\ tasks = <<>>
  /\ vectors = <<>>
  /\ nextUuid = 1
  /\ issued = {}
  /\ handed = <<>>
  /\ embedded = {}
  /\ completed = <<>>
  /\ batchDelays = <<>>
  /\ upsertStart = 0
  /\ upsertCalls = <<>>
  /\ store = <<>>
  /\ response = NoResponse
  /\ seg = SegIdle
  /\ runs = <<>>
  /\ ask = AskIdle

Next ==
  \/ PostReceive
  \/ \E b \in 0..(BATCH_SIZE - 1) : PacingElapsed(b)
  \/ \E b \in 0..(BATCH_SIZE - 1), answer \in ApiAnswers : ApiAnswer(b, answer)
  \/ \E b \in 0..(BATCH_SIZE - 1) : BackoffElapsed(b)
  \/ BatchSettled
  \/ BatchDelayElapsed
  \/ UpsertResolved
  \/ UpsertRejected

Spec == Init /\ [][Next]_vars

\* ------------------------------------------------------------------------
\* splitTextIntoChunks on its own, one iteration of its loop to the step
\* ------------------------------------------------------------------------
\* Texts are built of tokens: a word of 25 letters, a word of 50 letters, a
\* whitespace run with a CR LF in it, a sentence terminator with its space,
\* a capital, a digit.
Tokens ==
  { Rep("a", 25), Rep("a", 50), <<" ", "\r", "\n">>, <<".", " ">>,
    <<"A">>, <<"1">> }

RECURSIVE Flatten(_)
Flatten(ts) == IF ts = <<>> THEN <<>> ELSE Head(ts) \o Flatten(Tail(ts))

TokenSeqs(n) == UNION {[1..k -> Tokens] : k \in 0..n}

SegTexts == {Flatten(ts) : ts \in TokenSeqs(MaxTokens)}

\* <<maxChars, overlap>> with maxChars > overlap >= 0
SegParams == {<<60, 0>>, <<60, 10>>, <<60, 50>>, <<75, 10>>}

\* Lower-case words of period - 1 letters, n characters in all
Words(n, period) == [k \in 1..n |-> IF k % period = 0 THEN " " ELSE "a"]

\* Texts longer than DEFAULT_MAX_CHARS, segmented with the defaults: one word
\* (hard cuts), a terminator right at the end of the first window, prose in
\* sentences (not normalized, and normalized), lower-case words
LongTexts ==
  { Rep("a", DEFAULT_MAX_CHARS + 1),
    Rep("a", DEFAULT_MAX_CHARS) \o <<".", " ", "A">> \o Rep("a", 60),
    <<" ", "\r", "\n">> \o Prose(2900, 100) \o <<"\n">>,
    Prose(3200, 190),
    Words(3200, 7),
    Words(1600, 1301) }

SegStart(text, maxChars, overlap) ==
  [pc |-> "called", text |-> text, maxChars |-> maxChars, overlap |-> overlap,
   cleanedText |-> <<>>, startIndex |-> 0, chunks |-> <<>>,
   iterations |-> 0, lastStartIndex |-> 0, lastChunkEndIndex |-> 0,
   windows |-> <<>>, result |-> <<>>]

\* What one iteration cut out: cleanedText.slice(from, to), pushed or dropped
Window(from, to, chunk) ==
  [from |-> from, to |-> to, pushed |-> Len(chunk) > MIN_CHUNK_CHARS]

\* route.ts:94-101
SegReturn(s, chunkList) ==
  [s EXCEPT !.pc = "returned", !.chunks = chunkList,
            !.result = FinalFilter(chunkList)]

\* route.ts:23-34
SplitEnter ==
  /\ seg.pc = "called"
  /\ LET cleanedText == CleanText(seg.text)
     IN  seg' = IF Len(cleanedText) <= seg.maxChars
                  THEN [seg EXCEPT !.pc = "returned",
                                   !.cleanedText = cleanedText,
                                   !.result = <<cleanedText>>]
                  ELSE [seg EXCEPT !.pc = "loop", !.cleanedText = cleanedText]
  /\ UNCHANGED <<postVars, runs, ask>>

\* route.ts:36-92, one iteration; the return follows the iteration that
\* leaves the loop
SplitIterate ==
  /\ seg.pc = "loop"
  /\ seg.startIndex < Len(seg.cleanedText)
  /\ LET endIndex == seg.startIndex + seg.maxChars
         counted == [seg EXCEPT !.iterations = @ + 1,
                                !.lastStartIndex = seg.startIndex]
     IN  IF endIndex >= Len(seg.cleanedText)
           THEN LET finalChunk ==
                      Trim(Slice(seg.cleanedText, seg.startIndex, Len(seg.cleanedText)))
                    last == Window(seg.startIndex, Len(seg.cleanedText), finalChunk)
                IN  seg' = SegReturn([counted EXCEPT !.windows = Append(@, last)],
                                     PushIfSubstantial(seg.chunks, finalChunk))
           ELSE LET chunkEndIndex ==
                      ChunkEndIndex(seg.cleanedText, seg.startIndex, seg.maxChars)
                    chunk == Trim(Slice(seg.cleanedText, seg.startIndex, chunkEndIndex))
                    pushed == PushIfSubstantial(seg.chunks, chunk)
                    next == NextStartIndex(seg.startIndex, chunkEndIndex, seg.overlap)
                    moved == [counted EXCEPT !.startIndex = next,
                                             !.lastChunkEndIndex = chunkEndIndex,
                                             !.windows = Append(@,
                                               Window(seg.startIndex, chunkEndIndex, chunk)),
                                             !.chunks = pushed]
                IN  seg' = IF next < Len(seg.cleanedText)
                             THEN moved
                             ELSE SegReturn(moved, pushed)
  /\ UNCHANGED <<postVars, runs, ask>>

SplitInit ==
  /\ seg \in {SegStart(text, p[1], p[2]) : text \in SegTexts, p \in SegParams}
             \cup {SegStart(text, DEFAULT_MAX_CHARS, DEFAULT_OVERLAP) :
                     text \in LongTexts}
  /\ request = [apiKey |-> FALSE, file |-> NoFile]
  /\ pc = "idle"
  /\ chunks = <<>>
  /\ batchStart = 0
  /\ tasks = <<>>
  /\ vectors = <<>>
  /\ nextUuid = 1
  /\ issued = {}
  /\ handed = <<>>
  /\ embedded = {}
  /\ completed = <<>>
  /\ batchDelays = <<>>
  /\ upsertStart = 0
  /\ upsertCalls = <<>>
  /\ store = <<>>
  /\ response = NoResponse
  /\ runs = <<>>
  /\ ask = AskIdle

SplitNext == SplitEnter \/ SplitIterate

SpecSplit == SplitInit /\ [][SplitNext]_vars

\* ------------------------------------------------------------------------
\* Two uploads at once.  The handler is an async function: each request
\* runs route.ts:311-357 with its own locals, and the runs interleave at
\* their awaits.  What the module holds once for all of them is uuidv4
\* (nextUuid) and the index (store).
\* ------------------------------------------------------------------------
RunIds == {1, 2}

RunFileName(r) == IF r = 1 THEN <<"a", "txt">> ELSE <<"b", "md">>

\* The chunks of the two documents: three of the first, two of the second
RunChunks(r) ==
  IF r = 1
    THEN << <<"a", "0">>, <<"a", "1">>, <<"a", "2">> >>
    ELSE << <<"b", "0">>, <<"b", "1">> >>

\* The locals of one call: chunks, fileName, i, batchPromises and vectors of
\* processChunksInBatches, i and the calls of the upsert loop
NewRun(r) ==
  [pc |-> "idle", fileName |-> RunFileName(r), chunks |-> RunChunks(r),
   i |-> 0, tasks |-> <<>>, vectors |-> <<>>,
   upsertStart |-> 0, upsertCalls |-> <<>>]

\* What the service answers while two runs are under way
RunAnswers ==
  { [kind |-> "resolved", embeddings |-> <<v>>] : v \in ApiVectors }
    \cup { [kind |-> "rejected", message |-> <<"429", "quota">>],
           [kind |-> "rejected", message |-> <<"500", "internal">>] }

\* CollectInto with vectors declared once in the module, not in the call:
\* every run sees what any run pushes
CollectIntoShared(allRuns, r, validResults) ==
  [q \in DOMAIN allRuns |->
     [allRuns[q] EXCEPT !.vectors = @ \o validResults]]

\* route.ts:151 and :192: vectors is a local of the call, and the push goes
\* to the vectors of the run that awaited the batch
CollectInto(allRuns, r, validResults) ==
  [allRuns EXCEPT ![r].vectors = @ \o validResults]

runFixed == <<request, pc, chunks, batchStart, tasks, vectors, issued, handed,
              embedded, completed, batchDelays, upsertStart, upsertCalls,
              response, seg, ask>>

\* route.ts:311 and :155-163: the call starts its first batch
RunStart(r) ==
  /\ runs[r].pc = "idle"
  /\ runs' = [runs EXCEPT ![r].pc = "embedding",
                          ![r].tasks = StartBatch(runs[r].chunks, 0)]
  /\ UNCHANGED <<runFixed, nextUuid, store>>

\* route.ts:168
RunPacingElapsed(r, b) ==
  /\ runs[r].pc = "embedding"
  /\ b \in DOMAIN runs[r].tasks
  /\ runs[r].tasks[b].state = "pacing"
  /\ \A a \in DOMAIN runs[r].tasks : a < b => runs[r].tasks[a].state # "pacing"
  /\ runs' = [runs EXCEPT ![r].tasks[b] = FirstCall(@)]
  /\ UNCHANGED <<runFixed, nextUuid, store>>

\* route.ts:117-142 and :171-187 for the pending request of task b of run r
RunApiAnswer(r, b, answer) ==
  /\ runs[r].pc = "embedding"
  /\ b \in DOMAIN runs[r].tasks
  /\ runs[r].tasks[b].state = "calling"
  /\ AnswerKind(answer) = "rateLimit" =>
       runs[r].tasks[b].retryCount < MaxRunRateLimits
  /\ LET t == CallbackAfterAnswer(runs[r].tasks[b], answer, runs[r].chunks,
                                  runs[r].fileName, runs[r].i, b, nextUuid)
     IN  /\ runs' = [runs EXCEPT ![r].tasks[b] = t]
         /\ nextUuid' = IF t.state = "done" /\ t.result # NullResult
                          THEN nextUuid + 1 ELSE nextUuid
  /\ UNCHANGED <<runFixed, store>>

\* route.ts:132-133
RunBackoffElapsed(r, b) ==
  /\ runs[r].pc = "embedding"
  /\ b \in DOMAIN runs[r].tasks
  /\ runs[r].tasks[b].state = "backoff"
  /\ runs' = [runs EXCEPT ![r].tasks[b] = RetryCall(@)]
  /\ UNCHANGED <<runFixed, nextUuid, store>>

\* route.ts:190-205 and :315-331 up to the first await of index.upsert
RunBatchSettled(r) ==
  /\ runs[r].pc = "embedding"
  /\ AllSettled(runs[r].tasks)
  /\ LET collected == CollectInto(runs, r, ValidResults(runs[r].tasks))
         vs == collected[r].vectors
         cleared == [collected EXCEPT ![r].tasks = <<>>]
     IN  runs' =
           IF HasNextBatch(runs[r].i, Len(runs[r].chunks))
             THEN [cleared EXCEPT ![r].pc = "batchDelay"]
           ELSE IF NoVectors(vs)
             THEN [cleared EXCEPT ![r].pc = "failed"]
           ELSE [cleared EXCEPT ![r].pc = "upserting",
                                ![r].upsertStart = 0,
                                ![r].upsertCalls = Append(@, UpsertBatch(vs, 0))]
  /\ UNCHANGED <<runFixed, nextUuid, store>>

\* route.ts:201 is over
RunBatchDelayElapsed(r) ==
  /\ runs[r].pc = "batchDelay"
  /\ runs' = [runs EXCEPT
       ![r].pc = "embedding",
       ![r].i = NextBatchStart(@),
       ![r].tasks = StartBatch(runs[r].chunks, NextBatchStart(runs[r].i))]
  /\ UNCHANGED <<runFixed, nextUuid, store>>

\* route.ts:331-357
RunUpsertResolved(r) ==
  /\ runs[r].pc = "upserting"
  /\ store' = store \o UpsertBatch(runs[r].vectors, runs[r].upsertStart)
  /\ runs' =
       IF runs[r].upsertStart + UPSERT_BATCH_SIZE < Len(runs[r].vectors)
         THEN [runs EXCEPT
                ![r].upsertStart = @ + UPSERT_BATCH_SIZE,
                ![r].upsertCalls = Append(@,
                   UpsertBatch(runs[r].vectors,
                               runs[r].upsertStart + UPSERT_BATCH_SIZE))]
         ELSE [runs EXCEPT ![r].pc = "responded"]
  /\ UNCHANGED <<runFixed, nextUuid>>

\* route.ts:334-340
RunUpsertRejected(r) ==
  /\ runs[r].pc = "upserting"
  /\ runs' = [runs EXCEPT ![r].pc = "failed"]
  /\ UNCHANGED <<runFixed, nextUuid, store>>

RunsInit ==
  /\ runs = [r \in RunIds |-> NewRun(r)]
  /\ request = [apiKey |-> FALSE, file |-> NoFile]
  /\ pc = "idle"
  /\ chunks = <<>>
  /\ batchStart = 0
  /\ tasks = <<>>
  /\ vectors = <<>>
  /\ nextUuid = 1
  /\ issued = {}
  /\ handed = <<>>
  /\ embedded = {}
  /\ completed = <<>>
  /\ batchDelays = <<>>
  /\ upsertStart = 0
  /\ upsertCalls = <<>>
  /\ store = <<>>
  /\ response = NoResponse
  /\ seg = SegIdle
  /\ ask = AskIdle

RunsNext ==
  \E r \in RunIds :
    \/ RunStart(r)
    \/ \E b \in 0..(BATCH_SIZE - 1) : RunPacingElapsed(r, b)
    \/ \E b \in 0..(BATCH_SIZE - 1), answer \in RunAnswers : RunApiAnswer(r, b, answer)
    \/ \E b \in 0..(BATCH_SIZE - 1) : RunBackoffElapsed(r, b)
    \/ RunBatchSettled(r)
    \/ RunBatchDelayElapsed(r)
    \/ RunUpsertResolved(r)
    \/ RunUpsertRejected(r)

SpecRuns == RunsInit /\ [][RunsNext]_vars

\* ------------------------------------------------------------------------
\* POST /api/ask (ask/route.ts:5-228) with the response cache of
\* lib/storage.ts.  The handler answers one question after the other; the
\* cached_responses table stays from one question to the next, and a row
\* can expire at any time.  Of a handler run `ask` keeps
\*   cacheReads    the getCachedResponse calls issued
\*   cacheWrites   the setCachedResponse calls issued
\*   webhookCalls  the axios.post calls issued
\*   messages      the messages addMessage stored
\* ------------------------------------------------------------------------
\* String.prototype.toLowerCase on a question of the model
LowerCase(s) ==
  [k \in 1..Len(s) |->
     CASE s[k] = "H" -> "h"
       [] s[k] = "I" -> "i"
       [] OTHER -> s[k]]

\* storage.ts:598-601 with hasImage false
createCacheKey(query) == <<"t", "x", "t", ":">> \o Trim(LowerCase(query))

\* Two spellings of one question, and another question
Questions == {<<"H", "i">>, <<"h", "i", " ">>, <<"y", "o">>}

CacheKeys == {createCacheKey(q) : q \in Questions}

\* The JSON bodies of the requests; <<>> is the empty string or a missing
\* field, enableCaching is "absent" when the body has none
AskBodies ==
  { [question |-> q, sessionId |-> <<"s">>, conversationId |-> c,
     enableCaching |-> e] :
      q \in Questions, c \in {<<>>, <<"c">>}, e \in {"absent", "true", "false"} }
  \cup
  { [question |-> <<>>, sessionId |-> <<"s">>, conversationId |-> <<>>,
     enableCaching |-> "absent"],
    [question |-> <<"y", "o">>, sessionId |-> <<>>, conversationId |-> <<>>,
     enableCaching |-> "absent"] }

\* ask/route.ts:8: enableCaching = true unless the body says otherwise
EnableCaching(body) == body.enableCaching # "false"

NoRow == [missing |-> TRUE]
NoCachedResponse == [null |-> TRUE]
NoBody == [missing |-> TRUE]
NoFormatted == [answer |-> "", sources |-> <<>>]

\* storage.ts:264-286: the row of the query that has not expired, or null
getCachedResponse(table, query) ==
  IF table[query] # NoRow /\ table[query].fresh
    THEN [response |-> table[query].response, sources |-> table[query].sources]
    ELSE NoCachedResponse

\* storage.ts:288-305: upsert on the query, expiring ttlMinutes from now
setCachedResponse(table, query, responseText, sources) ==
  [table EXCEPT ![query] =
     [response |-> responseText, sources |-> sources, fresh |-> TRUE]]

\* What the webhook answers with: an answer with its sources, or no data
EmptyData == [empty |-> TRUE]
WebhookData == {[answer |-> "A1", sources |-> <<"doc">>], EmptyData}

\* ask/route.ts:95-146, for data with an answer field and for no data
FormatResponse(data) ==
  IF data = EmptyData
    THEN [answer |-> "I received a response, but it was empty.", sources |-> <<>>]
    ELSE [answer |-> data.answer, sources |-> data.sources]

\* The errors axios.post rejects with: the timeout, an error status of the
\* webhook, no response at all
AxiosErrors ==
  { [code |-> "ECONNABORTED", status |-> 0],
    [code |-> "ERR_BAD_RESPONSE", status |-> 502],
    [code |-> "ERR_NETWORK", status |-> 0] }

\* ask/route.ts:201-221
AxiosErrorResponse(error) ==
  IF error.code = "ECONNABORTED"
    THEN ErrorResponse(408,
           "Request timeout - the AI service took too long to respond")
    ELSE ErrorResponse(IF error.status # 0 THEN error.status ELSE 500,
                       "Failed to get response from AI service")

\* ask/route.ts:223-226
InternalServerError == ErrorResponse(500, "Internal server error")

\* ask/route.ts:60-64
CachedAnswer(cachedResponse) ==
  [status |-> 200, answer |-> cachedResponse.response,
   sources |-> cachedResponse.sources, cached |-> TRUE]

\* ask/route.ts:194-197
FreshAnswer(formattedResponse) ==
  [status |-> 200, answer |-> formattedResponse.answer,
   sources |-> formattedResponse.sources, cached |-> FALSE]

NewAsk(webhookUrl) ==
  [pc |-> "ready", served |-> 0, webhookUrl |-> webhookUrl,
   cache |-> [k \in CacheKeys |-> NoRow],
   body |-> NoBody, cachedResponse |-> NoCachedResponse,
   formattedResponse |-> NoFormatted,
   cacheReads |-> 0, cacheWrites |-> 0, webhookCalls |-> 0,
   messages |-> <<>>, response |-> NoResponse]

AskRespond(a, r) == [a EXCEPT !.pc = "responded", !.response = r]

\* ask/route.ts:74: axios.post is issued
CallWebhook(a) == [a EXCEPT !.pc = "webhook", !.webhookCalls = @ + 1]

\* ask/route.ts:168-197: the first addMessage is issued, or the answer
StoreConversation(a) ==
  IF a.body.conversationId # <<>>
    THEN [a EXCEPT !.pc = "missUserMessage"]
    ELSE AskRespond(a, FreshAnswer(a.formattedResponse))

askFixed == <<postVars, seg, runs>>

\* ask/route.ts:5-37 and :74, up to the first await after request.json()
AskReceive(body) ==
  /\ ask.pc \in {"ready", "responded"}
  /\ ask.served < MaxAsks
  /\ LET a == [ask EXCEPT !.served = @ + 1,
                          !.body = body,
                          !.cachedResponse = NoCachedResponse,
                          !.formattedResponse = NoFormatted,
                          !.cacheReads = 0,
                          !.cacheWrites = 0,
                          !.webhookCalls = 0,
                          !.messages = <<>>,
                          !.response = NoResponse]
     IN  ask' =
           IF body.question = <<>>
             THEN AskRespond(a, ErrorResponse(400,
                    "Question is required and must be a string"))
           ELSE IF body.sessionId = <<>>
             THEN AskRespond(a, ErrorResponse(400,
                    "Session ID is required and must be a string"))
           ELSE IF ~ask.webhookUrl
             THEN AskRespond(a, ErrorResponse(500,
                    "N8N webhook URL is not configured"))
           ELSE IF EnableCaching(body)
             THEN [a EXCEPT !.pc = "getCached", !.cacheReads = @ + 1]
           ELSE CallWebhook(a)
  /\ UNCHANGED askFixed

\* ask/route.ts:37-74: storage.getCachedResponse resolved
GetCachedResolved ==
  /\ ask.pc = "getCached"
  /\ LET found == getCachedResponse(ask.cache, createCacheKey(ask.body.question))
         a == [ask EXCEPT !.cachedResponse = found]
     IN  ask' =
           IF found # NoCachedResponse
             THEN IF ask.body.conversationId # <<>>
                    THEN [a EXCEPT !.pc = "hitUserMessage"]
                    ELSE AskRespond(a, CachedAnswer(found))
             ELSE CallWebhook(a)
  /\ UNCHANGED askFixed

\* storage.getCachedResponse rejected (storage.ts:273-276): the catch of
\* ask/route.ts:198 answers
GetCachedRejected ==
  /\ ask.pc = "getCached"
  /\ ask' = AskRespond(ask, InternalServerError)
  /\ UNCHANGED askFixed

\* ask/route.ts:44-64: an addMessage of the cache hit resolved
HitMessageResolved ==
  /\ ask.pc \in {"hitUserMessage", "hitAssistantMessage"}
  /\ ask' =
       IF ask.pc = "hitUserMessage"
         THEN [ask EXCEPT
                 !.messages = Append(@, [role |-> "user",
                                         content |-> ask.body.question,
                                         cached |-> TRUE]),
                 !.pc = "hitAssistantMessage"]
         ELSE AskRespond(
                [ask EXCEPT
                   !.messages = Append(@, [role |-> "assistant",
                                           content |-> ask.cachedResponse.response,
                                           cached |-> TRUE])],
                CachedAnswer(ask.cachedResponse))
  /\ UNCHANGED askFixed

\* An addMessage of the cache hit rejected (storage.ts:198): ask/route.ts:44
\* and :51 are in no try of their own, the catch of ask/route.ts:198 answers
HitMessageRejected ==
  /\ ask.pc \in {"hitUserMessage", "hitAssistantMessage"}
  /\ ask' = AskRespond(ask, InternalServerError)
  /\ UNCHANGED askFixed

\* ask/route.ts:74-159: axios.post resolved
WebhookResolved(data) ==
  /\ ask.pc = "webhook"
  /\ LET formattedResponse == FormatResponse(data)
         a == [ask EXCEPT !.formattedResponse = formattedResponse]
     IN  ask' =
           IF EnableCaching(ask.body) /\ formattedResponse.answer # ""
             THEN [a EXCEPT !.pc = "setCached", !.cacheWrites = @ + 1]
             ELSE StoreConversation(a)
  /\ UNCHANGED askFixed

\* ask/route.ts:198-221: axios.post rejected
WebhookRejected(error) ==
  /\ ask.pc = "webhook"
  /\ ask' = AskRespond(ask, AxiosErrorResponse(error))
  /\ UNCHANGED askFixed

\* ask/route.ts:154-160: storage.setCachedResponse resolved
SetCachedResolved ==
  /\ ask.pc = "setCached"
  /\ ask' = StoreConversation(
              [ask EXCEPT !.cache =
                 setCachedResponse(ask.cache,
                                   createCacheKey(ask.body.question),
                                   ask.formattedResponse.answer,
                                   ask.formattedResponse.sources)])
  /\ UNCHANGED askFixed

\* ask/route.ts:161-164: storage.setCachedResponse rejected, the request
\* goes on
SetCachedRejected ==
  /\ ask.pc = "setCached"
  /\ ask' = StoreConversation(ask)
  /\ UNCHANGED askFixed

\* ask/route.ts:171-197: an addMessage after the webhook resolved
MissMessageResolved ==
  /\ ask.pc \in {"missUserMessage", "missAssistantMessage"}
  /\ ask' =
       IF ask.pc = "missUserMessage"
         THEN [ask EXCEPT
                 !.messages = Append(@, [role |-> "user",
                                         content |-> ask.body.question,
                                         cached |-> FALSE]),
                 !.pc = "missAssistantMessage"]
         ELSE AskRespond(
                [ask EXCEPT
                   !.messages = Append(@, [role |-> "assistant",
                                           content |-> ask.formattedResponse.answer,
                                           cached |-> FALSE])],
                FreshAnswer(ask.formattedResponse))
  /\ UNCHANGED askFixed

\* ask/route.ts:188-197: an addMessage after the webhook rejected, the
\* request goes on to its answer
MissMessageRejected ==
  /\ ask.pc \in {"missUserMessage", "missAssistantMessage"}
  /\ ask' = AskRespond(ask, FreshAnswer(ask.formattedResponse))
  /\ UNCHANGED askFixed

\* The expires_at of a row passes (storage.ts:270)
CacheExpires(key) ==
  /\ ask.pc # "idle"
  /\ ask.cache[key] # NoRow
  /\ ask.cache[key].fresh
  /\ ask' = [ask EXCEPT !.cache[key].fresh = FALSE]
  /\ UNCHANGED askFixed

AskInit ==
  /\ ask \in {NewAsk(webhookUrl) : webhookUrl \in BOOLEAN}
  /\ request = [apiKey |-> FALSE, file |-> NoFile]
  /\ pc = "idle"
  /\ chunks = <<>>
  /\ batchStart = 0
  /\ tasks = <<>>
  /\ vectors = <<>>
  /\ nextUuid = 1
  /\ issued = {}
  /\ handed = <<>>
  /\ embedded = {}
  /\ completed = <<>>
  /\ batchDelays = <<>>
  /\ upsertStart = 0
  /\ upsertCalls = <<>>
  /\ store = <<>>
  /\ response = NoResponse
  /\ seg = SegIdle
  /\ runs = <<>>

AskNext ==
  \/ \E body \in AskBodies : AskReceive(body)
  \/ GetCachedResolved
  \/ GetCachedRejected
  \/ HitMessageResolved
  \/ HitMessageRejected
  \/ \E data \in WebhookData : WebhookResolved(data)
  \/ \E error \in AxiosErrors : WebhookRejected(error)
  \/ SetCachedResolved
  \/ SetCachedRejected
  \/ MissMessageResolved
  \/ MissMessageRejected
  \/ \E key \in CacheKeys : CacheExpires(key)

SpecAsk == AskInit /\ [][AskNext]_vars

\* ========================================================================
\* Properties
\* ========================================================================
TaskIndexes == DOMAIN tasks
OnlyRateLimits(task) ==
  \A k \in 1..Len(task.answers) : task.answers[k] = "rateLimit"

\* processChunksInBatches has returned its vectors to the handler
ProcessReturned ==
  \/ pc = "upserting"
  \/ pc = "responded" /\ Len(chunks) > 0 /\ response # InternalErrorResponse

EmbeddedIndexes == {e[1] : e \in embedded}
EmbeddedOk == {e[1] : e \in {x \in embedded : x[2] # Null}}
EmbeddedNull == {e[1] : e \in {x \in embedded : x[2] = Null}}

\* C1: a chunk whose every embedContent call fails with a rate-limit error
\* gets exactly 4 calls, the first at retry count 0, with waits of 1000,
\* 2000 and 4000 ms in that order before the 2nd, 3rd and 4th call, and
\* then null comes back.
C1_RateLimitSchedule ==
  \A b \in TaskIndexes :
    LET t == tasks[b]
        n == Len(t.answers)
        schedule == <<1000, 2000, 4000>>
    IN  OnlyRateLimits(t) =>
          /\ t.state \in {"pacing", "calling", "backoff", "done"}
          /\ t.state = "pacing" => t.apiCalls = 0 /\ n = 0
          /\ t.state = "calling" =>
               /\ t.apiCalls = n + 1 /\ t.retryCount = n
               /\ n <= 3 /\ t.backoffs = SubSeq(schedule, 1, n)
          /\ t.state = "backoff" =>
               /\ t.apiCalls = n /\ t.retryCount = n - 1
               /\ n <= 3 /\ t.backoffs = SubSeq(schedule, 1, n)
          /\ t.state = "done" =>
               /\ t.apiCalls = 4 /\ n = 4
               /\ t.backoffs = schedule
               /\ t.embedding = Null
               /\ t.result = NullResult

C1_Witness ==
  \E b \in TaskIndexes :
    /\ tasks[b].state = "done"
    /\ tasks[b].answers = <<"rateLimit", "rateLimit", "rateLimit", "rateLimit">>

\* C2: no exception leaves generateEmbeddingWithRetry: whatever the answers,
\* a task makes at most MAX_RETRIES + 1 calls and ends with a non-empty
\* vector or null; processChunksInBatches is never rejected, and every
\* vector a chunk of the batch produced reaches the collection.
VectorsMade == nextUuid - 1
VectorsHeld ==
  Len(vectors)
    + Cardinality({b \in TaskIndexes :
         tasks[b].state = "done" /\ tasks[b].result # NullResult})

C2_NeverThrows ==
  /\ \A b \in TaskIndexes :
       /\ tasks[b].state # "threw"
       /\ tasks[b].apiCalls <= MAX_RETRIES + 1
       /\ tasks[b].state = "done" =>
            \/ tasks[b].embedding = Null
            \/ tasks[b].embedding \in ApiVectors /\ Len(tasks[b].embedding) > 0
  /\ response # InternalErrorResponse
  /\ VectorsHeld = VectorsMade
  /\ Cardinality(EmbeddedOk) = VectorsMade

C2_Witness ==
  /\ pc = "upserting"
  /\ \E g \in EmbeddedNull, h \in EmbeddedOk : g \div BATCH_SIZE = h \div BATCH_SIZE
  /\ \E i \in 1..Len(vectors) : vectors[i].metadata.chunk_index \in EmbeddedOk

\* C3: no embedContent request is issued for a chunk of a batch before
\* generateEmbeddingWithRetry has returned for every chunk of the batches
\* before it, so the requests in flight all belong to one batch.
FirstOfBatch(g) == (g \div BATCH_SIZE) * BATCH_SIZE

C3_OneBatchInFlight ==
  \A g \in issued : \A h \in 0..(FirstOfBatch(g) - 1) : h \in EmbeddedIndexes

C3_Witness ==
  /\ \E g \in issued : g >= BATCH_SIZE /\ g \notin EmbeddedIndexes
  /\ EmbeddedNull # {}

\* C4: the vectors processChunksInBatches returns are exactly one for each
\* chunk index whose embedding came back non-null; the vector of index g
\* carries text = chunks[g], source = the file name, chunk_index = g,
\* total_chunks = N and batch_number = floor(g / BATCH_SIZE) + 1.
VectorsOf(g) == {i \in 1..Len(vectors) : vectors[i].metadata.chunk_index = g}

C4_ReturnedVectors ==
  /\ \A i \in 1..Len(vectors) :
       LET v == vectors[i]
           g == v.metadata.chunk_index
       IN  /\ g \in 0..(Len(chunks) - 1)
           /\ <<g, v.values>> \in embedded
           /\ v.metadata.text = chunks[g + 1]
           /\ v.metadata.source = request.file.name
           /\ v.metadata.total_chunks = Len(chunks)
           /\ v.metadata.batch_number = (g \div BATCH_SIZE) + 1
  /\ ProcessReturned =>
       /\ EmbeddedIndexes = 0..(Len(chunks) - 1)
       /\ \A g \in 0..(Len(chunks) - 1) :
            Cardinality(VectorsOf(g)) = IF g \in EmbeddedOk THEN 1 ELSE 0

C4_Witness ==
  /\ ProcessReturned
  /\ EmbeddedNull # {}
  /\ \E i \in 1..Len(vectors) : vectors[i].metadata.batch_number = 2
  /\ \E i \in 1..Len(vectors) : vectors[i].metadata.batch_number = 1

\* C5, as claimed: when within a batch chunk j's embedding comes back before
\* chunk i's, i < j, the vector of j precedes the vector of i in the
\* collection.
PositionOf(g) == CHOOSE i \in VectorsOf(g) : TRUE
CompletedBefore(j, i) ==
  \E p, q \in 1..Len(completed) : p < q /\ completed[p] = j /\ completed[q] = i

C5_CompletionOrder ==
  \A i, j \in 0..(Len(chunks) - 1) :
    (i < j /\ CompletedBefore(j, i) /\ VectorsOf(i) # {} /\ VectorsOf(j) # {})
      => PositionOf(j) < PositionOf(i)

\* C5, amended: the vectors are collected in chunk index order, whatever
\* the order in which the embeddings of a batch came back.
C5_IndexOrder ==
  \A p, q \in 1..Len(vectors) :
    p < q => vectors[p].metadata.chunk_index < vectors[q].metadata.chunk_index

C5_Witness ==
  \E i, j \in 0..(Len(chunks) - 1) :
    /\ i < j
    /\ CompletedBefore(j, i)
    /\ VectorsOf(i) # {} /\ VectorsOf(j) # {}
    /\ PositionOf(i) < PositionOf(j)

\* C6: when the embedding of every chunk of a non-empty chunk list fails,
\* the vector list is empty, the handler answers 500 and no upsert call is
\* ever issued.
AllFailed ==
  /\ Len(chunks) > 0
  /\ EmbeddedIndexes = 0..(Len(chunks) - 1)
  /\ EmbeddedOk = {}

C6_AllFailed ==
  AllFailed =>
    /\ vectors = <<>>
    /\ upsertCalls = <<>>
    /\ store = <<>>
    /\ pc \in {"embedding", "responded"}
    /\ pc = "responded" => response = NoVectorsResponse /\ response.status = 500

C6_Witness == AllFailed /\ pc = "responded" /\ Len(chunks) > BATCH_SIZE

\* C7: when the upsert of batch j fails, the handler answers 500, batch j is
\* the last one submitted and the store holds the batches 1..j-1; the
\* ingestion statistics are answered only when every batch is in the store.
C7_UpsertFailure ==
  /\ response = StoreFailureResponse =>
       LET j == Len(upsertCalls)
       IN  /\ pc = "responded"
           /\ response.status = 500
           /\ j >= 1
           /\ j = (upsertStart \div UPSERT_BATCH_SIZE) + 1
           /\ \A k \in 1..j :
                upsertCalls[k] = UpsertBatch(vectors, (k - 1) * UPSERT_BATCH_SIZE)
           /\ store = SubSeq(vectors, 1, (j - 1) * UPSERT_BATCH_SIZE)
  /\ (pc = "responded" /\ response.status = 200) => store = vectors

C7_Witness ==
  /\ response = StoreFailureResponse
  /\ Len(upsertCalls) = 2
  /\ Len(store) = UPSERT_BATCH_SIZE

\* C8: an upsert call is issued only when an embedding came back for every
\* chunk and no request, backoff wait or inter-batch wait is pending; while
\* the run is embedding, the store holds nothing of it.
C8_UpsertAfterEmbedding ==
  /\ (upsertCalls # <<>> \/ store # <<>> \/ pc = "upserting") =>
       /\ EmbeddedIndexes = 0..(Len(chunks) - 1)
       /\ issued = 0..(Len(chunks) - 1)
       /\ \A b \in TaskIndexes : tasks[b].state = "done"
       /\ pc \in {"upserting", "responded"}
  /\ pc \in {"embedding", "batchDelay"} => upsertCalls = <<>> /\ store = <<>>

C8_Witness == pc = "upserting" /\ Len(batchDelays) >= 1 /\ store # <<>>

\* C9: a run in which some but not all chunks fail to embed and no upsert
\* fails answers status ok with chunksCreated = the vectors upserted,
\* totalChunks = the chunks of the document and
\* 1 <= chunksCreated <= totalChunks.
PartialFailure == EmbeddedOk # {} /\ EmbeddedNull # {}

C9_PartialSuccess ==
  (pc = "responded" /\ ProcessReturned /\ PartialFailure
     /\ response # StoreFailureResponse) =>
    /\ response.status = 200
    /\ response.body.status = "ok"
    /\ response.body.chunksCreated = Len(store)
    /\ response.body.chunksCreated = Cardinality(EmbeddedOk)
    /\ response.body.totalChunks = Len(chunks)
    /\ 1 <= response.body.chunksCreated
    /\ response.body.chunksCreated <= response.body.totalChunks

C9_Witness ==
  /\ pc = "responded"
  /\ response.status = 200
  /\ PartialFailure
  /\ Len(upsertCalls) = 2

\* C10, as claimed: every chunk splitTextIntoChunks returns has a trimmed
\* length of more than 50 characters.
C10_NoShortChunk ==
  seg.pc = "returned" =>
    \A k \in 1..Len(seg.result) : Len(Trim(seg.result[k])) > 50

\* C11, as claimed: a text whose normalized length is at most maxChars comes
\* back as exactly one chunk, the normalized text, when that length is more
\* than 50, and as no chunk at all otherwise.
FitsOneWindow == seg.pc = "returned" /\ Len(seg.cleanedText) <= seg.maxChars

C11_ShortTextOneOrNoChunk ==
  FitsOneWindow =>
    seg.result = IF Len(seg.cleanedText) > 50
                   THEN <<seg.cleanedText>>
                   ELSE <<>>

\* C12, as claimed: an upload whose decoded text is not blank but normalizes
\* to 50 characters or fewer gets no chunk and an error response, and no
\* embedding request and no upsert call is issued for it.
ShortUpload ==
  /\ Validate(request) = Pass
  /\ Len(CleanText(request.file.text)) <= 50

C12_ShortUploadRejected ==
  (ShortUpload /\ pc # "request") =>
    /\ chunks = <<>>
    /\ issued = {}
    /\ upsertCalls = <<>>
    /\ pc = "responded"
    /\ response.status >= 400

\* C13: with maxChars > overlap >= 0 the loop of splitTextIntoChunks ends
\* on every text.  An iteration either is the last one (it takes the rest
\* of the text and leaves the loop) or leaves the cursor startIndex
\* strictly greater than it found it; the loop goes on only with the cursor
\* inside the text, so it makes at most cleanedText.length iterations.
C13_CursorAdvances ==
  [][seg.pc = "loop" =>
       /\ \/ seg'.startIndex > seg.startIndex
          \/ /\ seg.startIndex + seg.maxChars >= Len(seg.cleanedText)
             /\ seg'.pc = "returned"
       /\ seg'.pc = "loop" => seg'.startIndex < Len(seg.cleanedText)
       /\ seg'.iterations = seg.iterations + 1
       /\ seg'.iterations <= Len(seg.cleanedText)]_vars

\* Three iterations on a text without a space or a sentence terminator
C13_Witness ==
  /\ seg.pc = "returned"
  /\ seg.iterations >= 3
  /\ \A k \in 1..Len(seg.cleanedText) : seg.cleanedText[k] = "a"

\* C14, as claimed: every chunk splitTextIntoChunks returns has at most
\* maxChars characters.
C14_ChunkWithinMaxChars ==
  seg.pc = "returned" =>
    \A k \in 1..Len(seg.result) : Len(seg.result[k]) <= seg.maxChars

\* The windows of the chunks that were pushed, in order: the k-th is the
\* window of the k-th returned chunk
PushedWindows ==
  LET IsPushed(w) == w.pushed
  IN  SelectSeq(seg.windows, IsPushed)

\* C15, as claimed: when 2 or more chunks are returned and overlap >= 1, the
\* window of each returned chunk but the first starts strictly before the
\* cut point that ended the returned chunk before it, and after that chunk's
\* window start.
C15_ReturnedChunksOverlap ==
  (seg.pc = "returned" /\ Len(seg.result) >= 2 /\ seg.overlap >= 1) =>
    \A k \in 1..(Len(PushedWindows) - 1) :
      /\ PushedWindows[k + 1].from < PushedWindows[k].to
      /\ PushedWindows[k + 1].from > PushedWindows[k].from

\* C15, amended: with overlap >= 1 the windows of consecutive iterations
\* overlap, each starting strictly before the cut point of the one before
\* it and after its start, so that every stretch they share is non-empty;
\* the returned chunks are the windows that were pushed, one for one, and two
\* consecutive returned chunks can fail to overlap only when an iteration
\* between them cut a chunk of 50 characters or fewer, which was dropped.
C15_WindowsOverlap ==
  /\ seg.overlap >= 1 =>
       \A k \in 1..(Len(seg.windows) - 1) :
         /\ seg.windows[k + 1].from < seg.windows[k].to
         /\ seg.windows[k + 1].from > seg.windows[k].from
         /\ seg.windows[k + 1].from = Max2(seg.windows[k].to - seg.overlap,
                                           seg.windows[k].from + 1)
  /\ seg.pc = "returned" /\ Len(seg.cleanedText) > seg.maxChars =>
       /\ Len(seg.result) = Len(PushedWindows)
       /\ \A k \in 1..Len(seg.result) :
            seg.result[k] =
              Trim(Slice(seg.cleanedText, PushedWindows[k].from, PushedWindows[k].to))
  /\ (seg.overlap >= 1 /\ \A k \in 1..Len(seg.windows) : seg.windows[k].pushed) =>
       \A k \in 1..(Len(PushedWindows) - 1) :
         PushedWindows[k + 1].from < PushedWindows[k].to

\* Two returned chunks with a dropped window between them and nothing shared
C15_Witness ==
  /\ seg.pc = "returned"
  /\ seg.overlap >= 1
  /\ Len(seg.result) >= 2
  /\ \E k \in 1..(Len(PushedWindows) - 1) :
       PushedWindows[k + 1].from >= PushedWindows[k].to
  /\ \E k \in 2..(Len(seg.windows) - 1) : ~seg.windows[k].pushed

\* The upload of one of the 4000-character documents, past its split
ScenarioUpload == Len(chunks) > 0 /\ request.file.name = <<"prose", "txt">>

\* The state PostReceive leaves: the first request is out, nothing else
JustSplit ==
  /\ pc = "embedding"
  /\ handed = <<0>>
  /\ tasks[0].state = "calling"
  /\ tasks[0].apiCalls = 1

\* C16, as claimed: a document whose normalized text has 4000 characters is
\* split, with maxChars = 1500 and overlap = 200, into exactly 3 chunks, and
\* every vector made from them records total_chunks = 3.
C16_ThreeChunks ==
  ScenarioUpload =>
    /\ Len(chunks) = 3
    /\ \A i \in 1..Len(vectors) : vectors[i].metadata.total_chunks = 3

\* C16, amended: such a document is split into 3 or 4 chunks, depending on
\* where its sentences end: 3 when they have 99 characters, 4 when they have
\* 190; every vector made from the chunks records the number of chunks the
\* document was split into.
C16_ThreeOrFourChunks ==
  ScenarioUpload =>
    /\ Len(chunks) \in {3, 4}
    /\ \A i \in 1..Len(vectors) : vectors[i].metadata.total_chunks = Len(chunks)
    /\ JustSplit =>
         /\ Len(CleanText(request.file.text)) = 4000
         /\ chunks = splitTextIntoChunks(request.file.text, 1500, 200)
         /\ request.file.text = Prose(4000, 99) => Len(chunks) = 3
         /\ request.file.text = Prose(4000, 190) => Len(chunks) = 4

C16_Witness ==
  /\ ScenarioUpload
  /\ pc = "responded"
  /\ response.status = 200
  /\ Len(chunks) = 4
  /\ Len(vectors) = 4
  /\ store = vectors

\* C17: when every upsert succeeds, the V vectors go out in exactly
\* ceil(V / UPSERT_BATCH_SIZE) calls of at most UPSERT_BATCH_SIZE vectors,
\* one call at a time; the batches, concatenated in call order, are the
\* vector collection in its order, each vector once; the chunks were
\* embedded in ceil(N / BATCH_SIZE) batches.  With the source's sizes 10
\* and 100, 25 chunks that all embed make ceil(25 / 10) = 3 embedding
\* batches and ceil(25 / 100) = 1 upsert call.
EmbeddingBatches == Len(batchDelays) + 1

C17_UpsertBatching ==
  /\ (pc = "responded" /\ response.status = 200) =>
       /\ Len(upsertCalls) = CeilDiv(Len(vectors), UPSERT_BATCH_SIZE)
       /\ \A k \in 1..Len(upsertCalls) :
            Len(upsertCalls[k]) \in 1..UPSERT_BATCH_SIZE
       /\ Flatten(upsertCalls) = vectors
       /\ store = vectors
       /\ \A p, q \in 1..Len(vectors) : p < q => vectors[p].id # vectors[q].id
       /\ EmbeddingBatches = CeilDiv(Len(chunks), BATCH_SIZE)
  /\ pc = "upserting" =>
       /\ Len(upsertCalls) >= 1
       /\ store = Flatten(SubSeq(upsertCalls, 1, Len(upsertCalls) - 1))
  /\ CeilDiv(25, 10) = 3 /\ CeilDiv(25, 100) = 1

\* Three vectors of four chunks: two embedding batches, a full upsert batch
\* and a last one of a single vector
C17_Witness ==
  /\ pc = "responded"
  /\ response.status = 200
  /\ Len(chunks) = 4
  /\ EmbeddingBatches = 2
  /\ Len(upsertCalls) = 2
  /\ Len(upsertCalls[2]) = 1

\* The last answer the task received, "none" before the first
LastAnswer(task) ==
  IF task.answers = <<>> THEN "none" ELSE task.answers[Len(task.answers)]

RateLimitAnswers(task) ==
  Cardinality({k \in 1..Len(task.answers) : task.answers[k] = "rateLimit"})

\* C18: when an embedContent call fails with an error that is no rate-limit
\* error, generateEmbeddingWithRetry returns null at once, at whatever retry
\* count: the task is done with a null result, no wait was started for that
\* answer and no call follows it (the calls made are the answers received,
\* the waits are those of the rate-limit answers before it).
C18_OtherErrorNoRetry ==
  \A b \in TaskIndexes :
    LET t == tasks[b]
    IN  LastAnswer(t) = "error" =>
          /\ t.state = "done"
          /\ t.embedding = Null
          /\ t.result = NullResult
          /\ t.apiCalls = Len(t.answers)
          /\ t.retryCount = Len(t.answers) - 1
          /\ Len(t.backoffs) = Len(t.answers) - 1
          /\ RateLimitAnswers(t) = Len(t.answers) - 1
          /\ <<batchStart + b, Null>> \in embedded

\* A chunk dropped on such an error at retry count 2
C18_Witness ==
  \E b \in TaskIndexes :
    /\ tasks[b].answers = <<"rateLimit", "rateLimit", "error">>
    /\ tasks[b].state = "done"
    /\ tasks[b].retryCount = 2

\* C19: when an embedContent call resolves with no embedding or an empty
\* vector, generateEmbeddingWithRetry returns null and makes no further
\* call, and the chunk gets no vector, as on an error; when it resolves with
\* a non-empty vector, that vector is returned as it is and becomes the
\* values of the chunk's vector.
C19_EmptyVectorIsNull ==
  \A b \in TaskIndexes :
    LET t == tasks[b]
    IN  /\ LastAnswer(t) = "empty" =>
             /\ t.state = "done"
             /\ t.embedding = Null
             /\ t.result = NullResult
             /\ t.apiCalls = Len(t.answers)
             /\ Len(t.backoffs) = Len(t.answers) - 1
             /\ <<batchStart + b, Null>> \in embedded
        /\ LastAnswer(t) = "vector" =>
             /\ t.state = "done"
             /\ t.embedding \in ApiVectors
             /\ Len(t.embedding) > 0
             /\ t.result # NullResult
             /\ t.result.values = t.embedding
             /\ t.apiCalls = Len(t.answers)
        /\ t.state = "done" =>
             (t.result = NullResult <=> LastAnswer(t) # "vector")

\* One batch with a chunk dropped on an empty answer and one embedded
C19_Witness ==
  /\ \E b \in TaskIndexes :
       tasks[b].state = "done" /\ tasks[b].answers = <<"empty">>
  /\ \E b \in TaskIndexes :
       tasks[b].state = "done" /\ tasks[b].answers = <<"rateLimit", "vector">>

\* C20: nothing is retried above generateEmbeddingWithRetry.  Each chunk is
\* handed to it at most once, in index order, and exactly once by the time
\* processChunksInBatches returns, also when it came back null; each upsert
\* batch is submitted at most once, also when the submission fails: no
\* vector is in two calls and no call follows a failed one.
VectorIds(batch) == {batch[k].id : k \in 1..Len(batch)}

C20_NoBatchRetry ==
  /\ \A p, q \in 1..Len(handed) : p < q => handed[p] < handed[q]
  /\ \A g \in EmbeddedIndexes : \E p \in 1..Len(handed) : handed[p] = g
  /\ Cardinality(embedded) = Cardinality(EmbeddedIndexes)
  /\ ProcessReturned => handed = [k \in 1..Len(chunks) |-> k - 1]
  /\ \A k, l \in 1..Len(upsertCalls) :
       k < l => VectorIds(upsertCalls[k]) \cap VectorIds(upsertCalls[l]) = {}
  /\ Len(upsertCalls) <= CeilDiv(Len(vectors), UPSERT_BATCH_SIZE)
  /\ response = StoreFailureResponse =>
       Len(store) = (Len(upsertCalls) - 1) * UPSERT_BATCH_SIZE

\* The first chunk came back null, a later batch ran, and the second upsert
\* call failed: the run ended with neither resubmitted
C20_Witness ==
  /\ pc = "responded"
  /\ response = StoreFailureResponse
  /\ 0 \in EmbeddedNull
  /\ EmbeddingBatches = 2
  /\ Len(upsertCalls) = 2
  /\ Len(handed) = Len(chunks)

\* C21: two runs interleaved at their awaits do not share the vector
\* collection.  Whatever the interleaving, every vector a run holds, returns
\* or submits to the index was made of one of that run's own chunks and
\* carries that run's source name and total_chunks; a run holds at most one
\* vector for each of its chunks, in index order; what it submits is its own
\* collection, and the index holds what the runs submitted, nothing else.
OwnVector(r, v) ==
  /\ v.metadata.source = RunFileName(r)
  /\ v.metadata.chunk_index \in 0..(Len(RunChunks(r)) - 1)
  /\ v.metadata.text = RunChunks(r)[v.metadata.chunk_index + 1]
  /\ v.metadata.total_chunks = Len(RunChunks(r))

StoredOf(r) ==
  LET IsOf(v) == v.metadata.source = RunFileName(r)
  IN  SelectSeq(store, IsOf)

C21_RunsOwnVectors ==
  \A r \in DOMAIN runs :
    LET run == runs[r]
    IN  /\ \A k \in 1..Len(run.vectors) : OwnVector(r, run.vectors[k])
        /\ \A p, q \in 1..Len(run.vectors) :
             p < q => run.vectors[p].metadata.chunk_index
                        < run.vectors[q].metadata.chunk_index
        /\ \A b \in DOMAIN run.tasks :
             (run.tasks[b].state = "done" /\ run.tasks[b].result # NullResult)
               => OwnVector(r, run.tasks[b].result)
        /\ Flatten(run.upsertCalls)
             = SubSeq(run.vectors, 1, Len(Flatten(run.upsertCalls)))
        /\ \A k \in 1..Len(StoredOf(r)) : StoredOf(r)[k] = run.vectors[k]
        /\ run.pc = "responded" => StoredOf(r) = run.vectors

\* Both runs answered, and in the index a batch of the second run lies
\* between two batches of the first
C21_Witness ==
  /\ \A r \in RunIds : runs[r].pc = "responded"
  /\ Len(runs[1].vectors) = 3
  /\ Len(runs[2].vectors) = 2
  /\ \E p, q, s \in 1..Len(store) :
       /\ p < q /\ q < s
       /\ store[p].metadata.source = RunFileName(1)
       /\ store[q].metadata.source = RunFileName(2)
       /\ store[s].metadata.source = RunFileName(1)

\* The extension of a file name, kept as name.split('.'): its last part when
\* the name has a dot, none otherwise
HasAllowedExtension(name) ==
  Len(name) >= 2 /\ <<".", ToLowerCase(name[Len(name)])>> \in AllowedTypes

MustBeRejected ==
  IF request.file = NoFile
    THEN TRUE
    ELSE \/ ~HasAllowedExtension(request.file.name)
         \/ request.file.size > MAX_FILE_SIZE

\* C22, as claimed (on a server whose API key is configured): a request
\* without a document file, with a file whose extension is not .pdf, .txt
\* or .md, or with a file of more than 10 MB is answered 400, and nothing is
\* segmented, embedded or upserted for it.
C22_InvalidRequestRejected ==
  (pc # "request" /\ request.apiKey /\ MustBeRejected) =>
    /\ pc = "responded"
    /\ response.status = 400
    /\ chunks = <<>>
    /\ issued = {}
    /\ upsertCalls = <<>>
    /\ store = <<>>

\* C23, as claimed: after a non-final chunk is cut at cutPoint, the next
\* cursor is cutPoint - overlap when that is greater than the previous
\* cursor, and cutPoint itself when it is not.
C23_NextCursor ==
  \A k \in 1..(Len(seg.windows) - 1) :
    LET cursor == seg.windows[k].from
        cutPoint == seg.windows[k].to
    IN  seg.windows[k + 1].from =
          IF cutPoint - seg.overlap > cursor
            THEN cutPoint - seg.overlap
            ELSE cutPoint

\* The windows that are not the last: the loop went on to cut them
NonFinalWindows ==
  {k \in 1..Len(seg.windows) :
     seg.windows[k].from + seg.maxChars < Len(seg.cleanedText)}

\* The indices the searches of a window go over, from its end backward
SearchRange(w) == SearchStart(w.from, seg.maxChars)..(w.from + seg.maxChars)

SpacesIn(w) == {i \in SearchRange(w) : CharAt(seg.cleanedText, i) = " "}

UppercaseLetters == {"A", "B"}

\* The terminators of the range followed by a space and an uppercase letter
CapitalSentenceEnds(w) ==
  {i \in SearchRange(w) :
     /\ IsTerminator(CharAt(seg.cleanedText, i))
     /\ CharAt(seg.cleanedText, i + 1) = " "
     /\ CharAt(seg.cleanedText, i + 2) \in UppercaseLetters}

\* The cut of a window that has no sentence cut: the nearest space, or the
\* window's end
WordOrHardCut(w) ==
  IF SpacesIn(w) # {} THEN SetMax(SpacesIn(w)) ELSE w.from + seg.maxChars

\* C24, as claimed: a terminator is the cut point of a non-final window only
\* if a space and then an uppercase letter follow it; a window whose range
\* has no such terminator (only terminators followed by a space and a digit,
\* a punctuation mark or a lowercase letter, or none) is cut at a word
\* boundary or hard.
C24_SentenceCutNeedsCapital ==
  \A k \in NonFinalWindows :
    LET w == seg.windows[k]
    IN  IF CapitalSentenceEnds(w) # {}
          THEN w.to = SetMax(CapitalSentenceEnds(w)) + 1
          ELSE w.to = WordOrHardCut(w)

\* The terminators of the range that pass the test of route.ts:59
QualifyingEnds(w) ==
  {i \in SearchRange(w) :
     /\ IsTerminator(CharAt(seg.cleanedText, i))
     /\ CharAt(seg.cleanedText, i + 1) = " "
     /\ CharAt(seg.cleanedText, i + 2) # Undefined
     /\ CharAt(seg.cleanedText, i + 2) = ToUpperCase(CharAt(seg.cleanedText, i + 2))}

\* C25: the cut rules of a non-final window have strict priority.  The cut is
\* just after the last qualifying terminator of the range when there is one;
\* it is at the last space of the range only when the range has no qualifying
\* terminator; it is at cursor + maxChars only when the range has neither.
C25_CutPriority ==
  \A k \in NonFinalWindows :
    LET w == seg.windows[k]
    IN  /\ QualifyingEnds(w) # {} => w.to = SetMax(QualifyingEnds(w)) + 1
        /\ (QualifyingEnds(w) = {} /\ SpacesIn(w) # {}) =>
             w.to = SetMax(SpacesIn(w))
        /\ (QualifyingEnds(w) = {} /\ SpacesIn(w) = {}) =>
             w.to = w.from + seg.maxChars

\* A run that cut one window after a terminator although a later space was
\* in its range, one at a space and one hard
C25_Witness ==
  /\ seg.pc = "returned"
  /\ \E k \in NonFinalWindows :
       LET w == seg.windows[k]
       IN  /\ QualifyingEnds(w) # {}
           /\ SpacesIn(w) # {}
           /\ SetMax(SpacesIn(w)) > SetMax(QualifyingEnds(w)) + 1
  /\ \E k \in NonFinalWindows :
       QualifyingEnds(seg.windows[k]) = {} /\ SpacesIn(seg.windows[k]) # {}
  /\ \E k \in NonFinalWindows :
       QualifyingEnds(seg.windows[k]) = {} /\ SpacesIn(seg.windows[k]) = {}

\* C26: every inter-batch wait is of DELAY_BETWEEN_BATCHES; the wait after
\* batch k is made only when a further batch remains and batch k + 1 starts
\* after k waits; once the last batch is over no wait is made, so a run over
\* N >= 1 chunks makes ceil(N / BATCH_SIZE) - 1 waits in all.
C26_InterBatchWaits ==
  /\ \A k \in 1..Len(batchDelays) : batchDelays[k] = DELAY_BETWEEN_BATCHES
  /\ pc = "embedding" => Len(batchDelays) = BatchNumber(batchStart) - 1
  /\ pc = "batchDelay" =>
       /\ Len(batchDelays) = BatchNumber(batchStart)
       /\ batchStart + BATCH_SIZE < Len(chunks)
  /\ (pc \in {"upserting", "responded"} /\ Len(chunks) >= 1) =>
       Len(batchDelays) = CeilDiv(Len(chunks), BATCH_SIZE) - 1

\* A run over chunks that do not fill their last batch is over, after a wait
C26_Witness ==
  /\ pc = "responded"
  /\ response.status = 200
  /\ Len(chunks) % BATCH_SIZE # 0
  /\ Len(batchDelays) >= 1

\* C27: in a batch the request of the first chunk is issued when the batch
\* starts, with no pacing delay; the first request of every other chunk is
\* issued after a pacing delay of INTRA_BATCH_DELAY, and not before; and the
\* request of a chunk whose pacing delay is due is issued whatever the
\* chunks before it are at: it does not wait for their responses.
C27_PacingThenConcurrent ==
  pc = "embedding" =>
    \A b \in DOMAIN tasks :
      /\ b = 0 => /\ tasks[b].pacing = 0
                  /\ tasks[b].state # "pacing"
                  /\ tasks[b].apiCalls >= 1
      /\ b > 0 => /\ tasks[b].pacing = INTRA_BATCH_DELAY
                  /\ tasks[b].state = "pacing" <=> tasks[b].apiCalls = 0
      /\ (/\ tasks[b].state = "pacing"
          /\ \A a \in DOMAIN tasks : a < b => tasks[a].state # "pacing")
           => ENABLED PacingElapsed(b)

\* The second chunk's request is issued while the first chunk's first request
\* has no answer yet
C27_Witness ==
  /\ pc = "embedding"
  /\ Cardinality(DOMAIN tasks) >= 2
  /\ tasks[0].state = "calling" /\ tasks[0].answers = <<>>
  /\ tasks[1].state = "calling" /\ tasks[1].answers = <<>>

RECURSIVE PendingUpTo(_)
\* The requests issued and not yet answered of the tasks 0..(n - 1)
PendingUpTo(n) ==
  IF n = 0 THEN 0
  ELSE PendingUpTo(n - 1) + tasks[n - 1].apiCalls - Len(tasks[n - 1].answers)

RequestsInFlight == PendingUpTo(Cardinality(DOMAIN tasks))

\* The chunks whose first request is issued and whose callback is not over
ChunksInProcess == Len(handed) - Cardinality(embedded)

\* C28: at every moment of a run at most BATCH_SIZE embedding requests are in
\* flight, retries included: a chunk has at most one request pending, the
\* chunks in process are those of one batch, and none of an earlier batch.
C28_InFlightBound ==
  /\ RequestsInFlight <= BATCH_SIZE
  /\ \A b \in DOMAIN tasks :
       tasks[b].apiCalls - Len(tasks[b].answers) =
         IF tasks[b].state = "calling" THEN 1 ELSE 0
  /\ RequestsInFlight <= ChunksInProcess
  /\ ChunksInProcess <= BATCH_SIZE

\* BATCH_SIZE requests are in flight, one of them a retry
C28_Witness ==
  /\ pc = "embedding"
  /\ RequestsInFlight = BATCH_SIZE
  /\ \E b \in DOMAIN tasks : tasks[b].state = "calling" /\ tasks[b].retryCount >= 1

\* A call with the default parameters on a text longer than maxChars
DefaultRun ==
  /\ seg.pc \in {"loop", "returned"}
  /\ seg.maxChars = DEFAULT_MAX_CHARS
  /\ seg.overlap = DEFAULT_OVERLAP
  /\ Len(seg.cleanedText) > seg.maxChars

\* Index i of the normalized text is inside a window whose chunk was pushed
InPushedWindow(i) ==
  \E k \in 1..Len(seg.windows) :
    /\ seg.windows[k].pushed
    /\ seg.windows[k].from <= i
    /\ i < seg.windows[k].to

\* C29: with maxChars 1500 and overlap 200 no content of a text longer than
\* maxChars is lost.  The first window starts at 0 and each window starts at
\* or before the cut of the one before; at the return the last window ends
\* at the end of the normalized text, every window's chunk was pushed and is
\* returned (the trimmed window, in order), and every character of the
\* normalized text that is no space is inside a returned chunk's window.
C29_DefaultsLoseNothing ==
  DefaultRun =>
    /\ \A k \in 1..Len(seg.windows) :
         /\ seg.windows[k].from <= (IF k = 1 THEN 0 ELSE seg.windows[k - 1].to)
         /\ seg.windows[k].pushed
    /\ seg.pc = "returned" =>
         /\ Len(seg.windows) >= 2
         /\ seg.windows[Len(seg.windows)].to = Len(seg.cleanedText)
         /\ Len(seg.result) = Len(seg.windows)
         /\ \A k \in 1..Len(seg.windows) :
              seg.result[k] = Trim(Slice(seg.cleanedText, seg.windows[k].from,
                                         seg.windows[k].to))
         /\ \A i \in 0..(Len(seg.cleanedText) - 1) :
              CharAt(seg.cleanedText, i) # " " => InPushedWindow(i)

\* A default call returned three chunks, the last from a final window of
\* fewer than 400 characters, with a cut that left a space to trim
C29_Witness ==
  /\ DefaultRun
  /\ seg.pc = "returned"
  /\ Len(seg.result) >= 3
  /\ LET last == seg.windows[Len(seg.windows)] IN last.to - last.from < 400
  /\ \E k \in 1..Len(seg.windows) :
       Len(seg.result[k]) < seg.windows[k].to - seg.windows[k].from

\* The handler is past its validation: ask.body is a body with a question
AskUnderWay == ask.pc \notin {"idle", "ready"} /\ ask.body # NoBody

\* getCachedResponse found a row that has not expired
CacheHit == AskUnderWay /\ ask.cachedResponse # NoCachedResponse

\* C30, as claimed: with caching enabled, a handler whose cache read found a
\* non-expired response for the question's key answers with that response
\* and cached = true, calls no webhook and writes no cache; the webhook is
\* called only after a cache miss or with enableCaching false; and with
\* enableCaching false the cache is neither read nor written.
C30_CacheHitAnswered ==
  /\ CacheHit =>
       /\ ask.webhookCalls = 0
       /\ ask.cacheWrites = 0
       /\ ask.pc = "responded" => ask.response = CachedAnswer(ask.cachedResponse)
  /\ (AskUnderWay /\ ask.webhookCalls > 0) =>
       \/ ~EnableCaching(ask.body)
       \/ /\ ask.cacheReads = 1
          /\ ask.pc # "getCached"
          /\ ask.cachedResponse = NoCachedResponse
  /\ (AskUnderWay /\ ~EnableCaching(ask.body)) =>
       /\ ask.cacheReads = 0
       /\ ask.cacheWrites = 0

====
